---- MODULE Spec2Model ----
(***************************************************************************)
(* Model of src/lib/api.ts of campaign-spark-nexus: the three caller-      *)
(* facing operations estimateAudience, simulateDelivery and                *)
(* generateAIMessages, each an async function whose awaits are the points  *)
(* where other calls and the external collaborators (the Supabase store,   *)
(* the OpenAI provider) interleave.                                        *)
(***************************************************************************)
EXTENDS Integers, Sequences, FiniteSets, TLC

(***************************************************************************)
(* Bounds                                                                  *)
(***************************************************************************)
MaxRuns == 3

MaxChildren == 2

MaxChoices == 2

Runs == 1..MaxRuns

(***************************************************************************)
(* The store's campaigns table and the inputs of simulateDelivery          *)
(***************************************************************************)
Campaigns == {"c1", "c2"}

CampaignIds == Campaigns \cup {"unknown"}

Messages == {"hello"}

VARIABLES
  logs,        \* communication_logs table: set of rows
  simPc,       \* per simulateDelivery call: position in the function
  simArg,      \* per call: [campaignId, message]
  simResult,   \* per call: what the promise settled with
  simLogged,   \* per call: console.error was called (catch block)
  failedAt,    \* history: which await raised the error of this call
  counted      \* history: ids of the rows the call's statistics query read

simVars == <<logs, simPc, simArg, simResult, simLogged, failedAt, counted>>

NoResult == [outcome |-> "pending", sent |-> 0, failed |-> 0, total |-> 0]

Returned(s, f, t) == [outcome |-> "returned", sent |-> s, failed |-> f, total |-> t]

\* api.ts:131, the value the catch block returns
CatchResult == Returned(0, 0, 0)

SimInit ==
  /\ logs = {}
  /\ simPc = [r \in Runs |-> "idle"]
  /\ simArg = [r \in Runs |-> [campaignId |-> "c1", message |-> "hello"]]
  /\ simResult = [r \in Runs |-> NoResult]
  /\ simLogged = [r \in Runs |-> FALSE]
  /\ failedAt = [r \in Runs |-> "none"]
  /\ counted = [r \in Runs |-> {}]

\* api.ts:87, the call; runs up to the first await (the campaign lookup)
SimCall(r, campaignId, message) ==
  /\ simPc[r] = "idle"
  /\ simPc' = [simPc EXCEPT ![r] = "lookup"]
  /\ simArg' = [simArg EXCEPT ![r] = [campaignId |-> campaignId, message |-> message]]
  /\ UNCHANGED <<logs, simResult, simLogged, failedAt, counted>>

\* api.ts:129-132, the catch block
SimCatch(r, at) ==
  /\ simLogged' = [simLogged EXCEPT ![r] = TRUE]
  /\ simResult' = [simResult EXCEPT ![r] = CatchResult]
  /\ failedAt' = [failedAt EXCEPT ![r] = at]
  /\ simPc' = [simPc EXCEPT ![r] = "done"]

\* api.ts:89-95, .single() found the row and the store answered
LookupOkUnguarded(r) ==
  /\ simPc[r] = "lookup"
  /\ simPc' = [simPc EXCEPT ![r] = "insert"]
  /\ UNCHANGED <<logs, simArg, simResult, simLogged, failedAt, counted>>

LookupOk(r) ==
  /\ simPc[r] = "lookup"
  /\ simArg[r].campaignId \in Campaigns
  /\ simPc' = [simPc EXCEPT ![r] = "insert"]
  /\ UNCHANGED <<logs, simArg, simResult, simLogged, failedAt, counted>>

\* api.ts:95, campaignError: no such row (.single()) or the store failed
LookupFail(r) ==
  /\ simPc[r] = "lookup"
  /\ SimCatch(r, "lookup")
  /\ UNCHANGED <<logs, simArg, counted>>

\* The row of api.ts:101-106; id is the table's serial key, run is a history
\* field naming the call that inserted the row (the code stores no such field)
NewLog(r) ==
  [id |-> Cardinality(logs) + 1,
   campaign_id |-> simArg[r].campaignId,
   message |-> simArg[r].message,
   status |-> "SENT",
   run |-> r]

\* api.ts:98-110, the insert succeeded
InsertOk(r) ==
  /\ simPc[r] = "insert"
  /\ logs' = logs \cup {NewLog(r)}
  /\ simPc' = [simPc EXCEPT ![r] = "stats"]
  /\ UNCHANGED <<simArg, simResult, simLogged, failedAt, counted>>

\* api.ts:110, logsError: the single-row insert was rejected, nothing stored
InsertFail(r) ==
  /\ simPc[r] = "insert"
  /\ SimCatch(r, "insert")
  /\ UNCHANGED <<logs, simArg, counted>>

\* api.ts:113-117, the rows the grouped query reads: every row of the campaign
CampaignLogs(campaignId) == {l \in logs : l.campaign_id = campaignId}

\* api.ts:117, group_by('status') with an exact count per group
StatsRows(campaignId) ==
  {[status |-> s, count |-> Cardinality({l \in CampaignLogs(campaignId) : l.status = s})] :
     s \in {l.status : l \in CampaignLogs(campaignId)}}

\* api.ts:121-122, stats?.find(s => s.status === X)?.count || 0
FindCount(rows, status) ==
  IF \E row \in rows : row.status = status
    THEN (CHOOSE row \in rows : row.status = status).count
    ELSE 0

\* api.ts:112-128, the statistics query succeeded
StatsOk(r) ==
  /\ simPc[r] = "stats"
  /\ LET rows == StatsRows(simArg[r].campaignId)
         sent == FindCount(rows, "SENT")
         failed == FindCount(rows, "FAILED")
     IN simResult' = [simResult EXCEPT ![r] = Returned(sent, failed, sent + failed)]
  /\ counted' = [counted EXCEPT ![r] = {l.id : l \in CampaignLogs(simArg[r].campaignId)}]
  /\ simPc' = [simPc EXCEPT ![r] = "done"]
  /\ UNCHANGED <<logs, simArg, simLogged, failedAt>>

\* api.ts:119, statsError
StatsFail(r) ==
  /\ simPc[r] = "stats"
  /\ SimCatch(r, "stats")
  /\ UNCHANGED <<logs, simArg, counted>>

SimNext ==
  \E r \in Runs :
    \/ \E c \in CampaignIds, m \in Messages : SimCall(r, c, m)
    \/ LookupOk(r)
    \/ LookupFail(r)
    \/ InsertOk(r)
    \/ InsertFail(r)
    \/ StatsOk(r)
    \/ StatsFail(r)

(***************************************************************************)
(* estimateAudience: rule groups, query text, the store's answer           *)
(***************************************************************************)
\* Text is a sequence of atoms: a character of a value (digits, letters, the
\* quote, the blank) or a whole word of the query (field, operator, keyword).
Digits == <<"0", "1", "2", "3", "4", "5", "6", "7", "8", "9">>

\* The customers table read by the store (Customer of lib/supabase)
Customers ==
  {[id |-> 1, name |-> <<"b">>, visits |-> 6],
   [id |-> 2, name |-> <<"o", "'", "b">>, visits |-> 10],
   [id |-> 3, name |-> <<"a", "b">>, visits |-> 1]}

NumericFields == {"visits"}

StringFields == {"name"}

KnownFields == NumericFields \cup StringFields

FieldInputs == KnownFields \cup {"nickname"}

Operators == {"=", "!=", ">", "<", ">=", "<=", "contains"}

GroupOperators == {"AND", "OR"}

NumValue(n) == [type |-> "number", n |-> n, s |-> <<>>]

StrValue(s) == [type |-> "string", n |-> 0, s |-> s]

UndefinedValue == [type |-> "undefined", n |-> 0, s |-> <<>>]

ValueInputs == {NumValue(10), StrValue(<<"b">>), StrValue(<<"o", "'", "b">>)}

\* Rule of lib/supabase: {field, operator, value}
MkRule(f, op, v) ==
  [kind |-> "rule", field |-> f, operator |-> op, value |-> v, rules |-> <<>>]

\* RuleGroup of lib/supabase: {operator, rules}
MkGroup(op, children) ==
  [kind |-> "group", field |-> "", operator |-> op, value |-> UndefinedValue,
   rules |-> children]

RuleInputs == {MkRule(f, op, v) : f \in FieldInputs, op \in Operators, v \in ValueInputs}

SeqsUpTo(S, n) == UNION {[1..k -> S] : k \in 0..n}

\* Nested groups are drawn over two rules, to keep the inputs few
InnerRuleInputs ==
  {MkRule("visits", op, NumValue(10)) : op \in {">=", "<"}}

InnerGroupInputs ==
  {MkGroup(op, ch) : op \in GroupOperators, ch \in SeqsUpTo(InnerRuleInputs, MaxChildren)}

RuleGroupInputs ==
  {MkGroup(op, ch) : op \in GroupOperators,
                     ch \in SeqsUpTo(RuleInputs \cup InnerGroupInputs, MaxChildren)}

\* String(n) for a non-negative integer, as the template literal prints it
RECURSIVE ToDecimal(_)
ToDecimal(n) ==
  IF n < 10 THEN <<Digits[n + 1]>>
  ELSE ToDecimal(n \div 10) \o <<Digits[(n % 10) + 1]>>

\* api.ts:68, destructuring { field, operator: op, value } of a child: a
\* property the child does not have reads as undefined
FieldOf(child) == IF child.kind = "rule" THEN child.field ELSE "undefined"

ValueOf(child) == IF child.kind = "rule" THEN child.value ELSE UndefinedValue

\* api.ts:69, typeof value === 'string' ? `'${value}'` : value
ValueText(v) ==
  IF v.type = "string" THEN <<"'">> \o v.s \o <<"'">>
  ELSE IF v.type = "number" THEN ToDecimal(v.n)
  ELSE <<"undefined">>

\* api.ts:69, `${field} ${op} ${...}`
RuleText(child) ==
  <<FieldOf(child), " ", child.operator, " ">> \o ValueText(ValueOf(child))

\* Array.prototype.join
RECURSIVE JoinTexts(_, _)
JoinTexts(texts, sep) ==
  IF texts = <<>> THEN <<>>
  ELSE IF Len(texts) = 1 THEN texts[1]
  ELSE texts[1] \o sep \o JoinTexts(Tail(texts), sep)

\* api.ts:67-70, rules.map(...).join(` ${operator} `)
Conditions(ruleGroup) ==
  JoinTexts([i \in 1..Len(ruleGroup.rules) |-> RuleText(ruleGroup.rules[i])],
            <<" ", ruleGroup.operator, " ">>)

QueryHead == <<"SELECT COUNT(*) FROM customers WHERE", " ">>

\* api.ts:72-76
QueryText(ruleGroup) == QueryHead \o Conditions(ruleGroup)

(***************************************************************************)
(* The store's estimate_audience function: runs the query text             *)
(***************************************************************************)
Tok(k, w, n, s) == [k |-> k, w |-> w, n |-> n, s |-> s]

IsDigit(c) == \E d \in 1..10 : Digits[d] = c

DigitVal(c) == (CHOOSE d \in 1..10 : Digits[d] = c) - 1

RECURSIVE DigitRunEnd(_, _)
DigitRunEnd(t, i) ==
  IF i < Len(t) /\ IsDigit(t[i + 1]) THEN DigitRunEnd(t, i + 1) ELSE i

RECURSIVE ParseDecimal(_)
ParseDecimal(t) ==
  IF t = <<>> THEN 0
  ELSE 10 * ParseDecimal(SubSeq(t, 1, Len(t) - 1)) + DigitVal(t[Len(t)])

NextQuote(t, i) ==
  IF \E j \in i..Len(t) : t[j] = "'"
    THEN CHOOSE j \in i..Len(t) : t[j] = "'" /\ \A k \in i..(j - 1) : t[k] # "'"
    ELSE 0

\* SQL lexer: blanks separate, digits make a number, quotes delimit a string
RECURSIVE Lex(_, _)
Lex(t, i) ==
  IF i > Len(t) THEN <<>>
  ELSE IF t[i] = " " THEN Lex(t, i + 1)
  ELSE IF IsDigit(t[i]) THEN
    LET e == DigitRunEnd(t, i)
    IN <<Tok("num", "", ParseDecimal(SubSeq(t, i, e)), <<>>)>> \o Lex(t, e + 1)
  ELSE IF t[i] = "'" THEN
    LET j == NextQuote(t, i + 1)
    IN IF j = 0 THEN <<Tok("bad", "", 0, <<>>)>>
       ELSE <<Tok("str", "", 0, SubSeq(t, i + 1, j - 1))>> \o Lex(t, j + 1)
  ELSE <<Tok("word", t[i], 0, <<>>)>> \o Lex(t, i + 1)

SqlOperators == {"=", "!=", ">", "<", ">=", "<="}

\* column op literal, the comparison well typed
IsComparison(a, b, c) ==
  /\ a.k = "word" /\ a.w \in KnownFields
  /\ b.k = "word" /\ b.w \in SqlOperators
  /\ \/ a.w \in NumericFields /\ c.k = "num"
     \/ a.w \in StringFields /\ c.k = "str" /\ b.w \in {"=", "!="}

\* comparison (AND|OR comparison)*
WellFormed(toks) ==
  /\ Len(toks) % 4 = 3
  /\ \A k \in 0..(Len(toks) \div 4) :
       IsComparison(toks[4 * k + 1], toks[4 * k + 2], toks[4 * k + 3])
  /\ \A k \in 1..(Len(toks) \div 4) :
       toks[4 * k].k = "word" /\ toks[4 * k].w \in GroupOperators

Compare(op, x, y) ==
  CASE op = "="  -> x = y
    [] op = "!=" -> x # y
    [] op = ">"  -> x > y
    [] op = "<"  -> x < y
    [] op = ">=" -> x >= y
    [] op = "<=" -> x <= y

ComparisonHolds(cust, a, b, c) ==
  IF a.w \in NumericFields THEN Compare(b.w, cust[a.w], c.n)
  ELSE IF b.w = "=" THEN cust[a.w] = c.s ELSE cust[a.w] # c.s

\* AND binds tighter than OR
RECURSIVE WhereHolds(_, _, _)
WhereHolds(cust, toks, k) ==
  LET last == Len(toks) \div 4
      stop == IF \E j \in k..(last - 1) : toks[4 * j + 4].w = "OR"
                THEN CHOOSE j \in k..(last - 1) :
                       /\ toks[4 * j + 4].w = "OR"
                       /\ \A m \in k..(j - 1) : toks[4 * m + 4].w # "OR"
                ELSE last
  IN \/ \A j \in k..stop :
          ComparisonHolds(cust, toks[4 * j + 1], toks[4 * j + 2], toks[4 * j + 3])
     \/ stop < last /\ WhereHolds(cust, toks, stop + 1)

\* The reply of rpc('estimate_audience'): {count, error}
StoreEstimate(query) ==
  LET toks == Lex(query, Len(QueryHead) + 1)
  IN IF SubSeq(query, 1, Len(QueryHead)) = QueryHead /\ WellFormed(toks)
       THEN [count |-> Cardinality({c \in Customers : WhereHolds(c, toks, 0)}),
             hasCount |-> TRUE, error |-> FALSE]
       ELSE [count |-> 0, hasCount |-> FALSE, error |-> TRUE]

\* The store could not be reached, or failed
StoreFailure == [count |-> 0, hasCount |-> FALSE, error |-> TRUE]

\* A reply carrying neither a count nor an error
StoreMalformed == [count |-> 0, hasCount |-> FALSE, error |-> FALSE]

VARIABLES
  estPc,       \* position in estimateAudience
  estArg,      \* the RuleGroup passed in
  estQuery,    \* query_string handed to rpc
  estParams,   \* values handed to rpc beside the query text
  estIssued,   \* rpc was called
  estStore,    \* history: how the store answered
  estResult,   \* what the promise settled with
  estLogged    \* console.error was called

estVars == <<estPc, estArg, estQuery, estParams, estIssued, estStore, estResult, estLogged>>

EstInit ==
  /\ estPc = "idle"
  /\ estArg = MkGroup("AND", <<>>)
  /\ estQuery = <<>>
  /\ estParams = <<>>
  /\ estIssued = FALSE
  /\ estStore = "none"
  /\ estResult = [outcome |-> "pending", count |-> 0]
  /\ estLogged = FALSE

\* api.ts:63-78, up to the await: build the query and call rpc with it
EstCall(ruleGroup) ==
  /\ estPc = "idle"
  /\ estArg' = ruleGroup
  /\ estQuery' = QueryText(ruleGroup)
  /\ estParams' = <<>>
  /\ estIssued' = TRUE
  /\ estPc' = "awaiting"
  /\ UNCHANGED <<estStore, estResult, estLogged>>

\* api.ts:78-84, from the reply to the return
EstSettle(reply, how) ==
  /\ estPc = "awaiting"
  /\ estStore' = how
  /\ IF reply.error
       THEN /\ estLogged' = TRUE
            /\ estResult' = [outcome |-> "returned", count |-> 0]
       ELSE /\ estLogged' = estLogged
            /\ estResult' = [outcome |-> "returned",
                             count |-> IF reply.hasCount THEN reply.count ELSE 0]
  /\ estPc' = "done"
  /\ UNCHANGED <<estArg, estQuery, estParams, estIssued>>

\* The store ran the query
EstAnswered ==
  LET reply == StoreEstimate(estQuery)
  IN EstSettle(reply, IF reply.error THEN "sqlerror" ELSE "answered")

EstUnreachable == EstSettle(StoreFailure, "unreachable")

EstMalformed == EstSettle(StoreMalformed, "malformed")

EstNext ==
  \/ \E rg \in RuleGroupInputs : EstCall(rg)
  \/ EstAnswered
  \/ EstUnreachable
  \/ EstMalformed

(***************************************************************************)
(* generateAIMessages: the provider call and the fallback                  *)
(***************************************************************************)
Intents == {"winback", "launch"}

\* api.ts:160-162 and 172-174, the three fallback messages
Fallback ==
  <<<<"We noticed you've been shopping with us and we'd love to offer you a special discount on your next purchase.">>,
    <<"As a valued customer, we're excited to share an exclusive offer with you.">>,
    <<"Don't miss out on our latest deals, specially curated for customers like you.">>>>

\* choice.message.content: a string, or null
Content(s) == [isNull |-> FALSE, s |-> s]

NullContent == [isNull |-> TRUE, s |-> <<>>]

ContentInputs ==
  {NullContent, Content(<<>>), Content(<<" ">>), Content(<<"h", "i">>),
   Content(<<" ", "h", "i", " ">>)}

\* A choice of the completion; a malformed one carries no message
ChoiceInputs ==
  {[hasMessage |-> TRUE, content |-> c] : c \in ContentInputs}
    \cup {[hasMessage |-> FALSE, content |-> NullContent]}

\* What the provider's promise settles with: a rejection, a completion with
\* choices, or a body without choices
ProviderReplies ==
  {[kind |-> "error", choices |-> <<>>], [kind |-> "nochoices", choices |-> <<>>]}
    \cup {[kind |-> "completion", choices |-> ch] : ch \in SeqsUpTo(ChoiceInputs, MaxChoices)}

NoReply == [kind |-> "none", choices |-> <<>>]

\* String.prototype.trim
RECURSIVE TrimStart(_)
TrimStart(s) == IF s # <<>> /\ Head(s) = " " THEN TrimStart(Tail(s)) ELSE s

RECURSIVE TrimEnd(_)
TrimEnd(s) ==
  IF s # <<>> /\ s[Len(s)] = " " THEN TrimEnd(SubSeq(s, 1, Len(s) - 1)) ELSE s

Trim(s) == TrimStart(TrimEnd(s))

\* api.ts:155-157, choices.map(c => c.message.content?.trim()).filter(Boolean)
RECURSIVE TrimmedContents(_)
TrimmedContents(choices) ==
  IF choices = <<>> THEN <<>>
  ELSE LET c == Head(choices).content
       IN (IF c.isNull \/ Trim(c.s) = <<>> THEN <<>> ELSE <<Trim(c.s)>>)
            \o TrimmedContents(Tail(choices))

\* Reading .map of a missing choices, or .content of a missing message, throws
Throws(reply) ==
  \/ reply.kind \in {"error", "nochoices"}
  \/ \E i \in 1..Len(reply.choices) : ~reply.choices[i].hasMessage

\* api.ts:155-176, from the settled reply to the returned messages
GenMessagesNoFallback(reply) ==
  IF Throws(reply) THEN Fallback ELSE TrimmedContents(reply.choices)

GenMessages(reply) ==
  IF Throws(reply) THEN Fallback
  ELSE IF Len(TrimmedContents(reply.choices)) > 0
    THEN TrimmedContents(reply.choices)
    ELSE Fallback

VARIABLES
  apiKey,      \* VITE_OPENAI_API_KEY is set
  genPc,       \* position in generateAIMessages
  genIntent,   \* campaignIntent
  genReply,    \* what the provider's promise settled with
  genResult,   \* what generateAIMessages settled with
  genToast     \* the catch block ran (console.error and toast)

genVars == <<apiKey, genPc, genIntent, genReply, genResult, genToast>>

GenInit ==
  /\ apiKey \in BOOLEAN
  /\ genPc = "idle"
  /\ genIntent = "winback"
  /\ genReply = NoReply
  /\ genResult = [outcome |-> "pending", messages |-> <<>>]
  /\ genToast = FALSE

\* api.ts:135-153, up to the await: without a key the throw lands in the
\* catch block at once, with one the request goes to the provider
GenCall(intent) ==
  /\ genPc = "idle"
  /\ genIntent' = intent
  /\ IF apiKey
       THEN /\ genPc' = "awaiting"
            /\ UNCHANGED <<genResult, genToast>>
       ELSE /\ genPc' = "done"
            /\ genToast' = TRUE
            /\ genResult' = [outcome |-> "returned", messages |-> Fallback]
  /\ UNCHANGED <<apiKey, genReply>>

\* The provider settles the pending request; nothing in api.ts bounds the wait
ProviderSettle(reply) ==
  /\ genPc = "awaiting"
  /\ genReply' = reply
  /\ genPc' = "settled"
  /\ UNCHANGED <<apiKey, genIntent, genResult, genToast>>

\* api.ts:155-176, the continuation after the await
GenContinue ==
  /\ genPc = "settled"
  /\ genResult' = [outcome |-> "returned", messages |-> GenMessages(genReply)]
  /\ genToast' = Throws(genReply)
  /\ genPc' = "done"
  /\ UNCHANGED <<apiKey, genIntent, genReply>>

GenNext ==
  \/ \E intent \in Intents : GenCall(intent)
  \/ \E reply \in ProviderReplies : ProviderSettle(reply)
  \/ GenContinue

vars == <<simVars, estVars, genVars>>

Init == SimInit /\ EstInit /\ GenInit

\* Each operation is checked on its own; the credential plays no part in the
\* first two and is taken as set there
SimSpecNext == SimNext /\ UNCHANGED <<estVars, genVars>>

EstSpecNext == EstNext /\ UNCHANGED <<simVars, genVars>>

GenSpecNext == GenNext /\ UNCHANGED <<simVars, estVars>>

InitWithKey == Init /\ apiKey

SimSpec == InitWithKey /\ [][SimSpecNext]_vars

EstSpec == InitWithKey /\ [][EstSpecNext]_vars

GenSpec == Init /\ [][GenSpecNext]_vars

\* The continuation after an await runs once the awaited promise has
\* settled; whether the provider ever settles it is not up to the program
GenLiveSpec == Init /\ [][GenSpecNext]_vars /\ WF_vars(GenContinue /\ UNCHANGED <<simVars, estVars>>)

(***************************************************************************)
(* Properties of simulateDelivery                                          *)
(***************************************************************************)
LogsOfRun(r) == {l \in logs : l.run = r}

Completed(r) == simPc[r] = "done" /\ failedAt[r] = "none"

\* C1: every simulateDelivery call that completes successfully, after any
\* history of earlier runs on the campaign, returns total = sent + failed,
\* and total equals the number of log records that run itself persisted
\* (one per recipient of the run).
C1_StatsMatchRunRecords ==
  \A r \in Runs :
    Completed(r) =>
      /\ simResult[r].total = simResult[r].sent + simResult[r].failed
      /\ simResult[r].total = Cardinality(LogsOfRun(r))

\* C2: when the log insert fails the call ends in an error and yields no
\* DeliveryStats, and no record of the failed run is counted by a later
\* aggregation.
C2_InsertFailureIsError ==
  \A r \in Runs :
    failedAt[r] = "insert" =>
      /\ simResult[r].outcome = "threw"
      /\ \A q \in Runs : counted[q] \cap {l.id : l \in LogsOfRun(r)} = {}

\* C8: under any interleaving of runs on one campaign, the stats a run
\* returns count only the records that run wrote, never another run's.
C8_StatsCountOwnRecordsOnly ==
  \A r \in Runs :
    Completed(r) => counted[r] \subseteq {l.id : l \in LogsOfRun(r)}

\* C10: when the campaign lookup fails the call returns {0, 0, 0} and has
\* inserted no log record; a call is past the lookup (inserting, or owning a
\* record) only for a campaign the store holds; and the step that leaves the
\* lookup never changes the persisted logs.
C10_State ==
  \A r \in Runs :
    /\ failedAt[r] = "lookup" =>
         simResult[r] = Returned(0, 0, 0) /\ LogsOfRun(r) = {}
    /\ (simPc[r] \in {"insert", "stats"} \/ LogsOfRun(r) # {}) =>
         simArg[r].campaignId \in Campaigns

C10_Step ==
  \A r \in Runs :
    (simPc[r] = "lookup" /\ simPc'[r] # "lookup") => logs' = logs

C10_LookupFailureWritesNothing == [](C10_State) /\ [][C10_Step]_vars

\* A failed lookup of an unknown campaign while another run has persisted a row
C10_Witness ==
  \E r, q \in Runs :
    /\ failedAt[r] = "lookup"
    /\ simArg[r].campaignId \notin Campaigns
    /\ LogsOfRun(q) # {}

(***************************************************************************)
(* Properties of estimateAudience                                          *)
(***************************************************************************)
\* Depth cap of a RuleGroup tree
DepthCap == 10

RECURSIVE Depth(_)
Depth(node) ==
  IF node.kind = "rule" THEN 0
  ELSE IF node.rules = <<>> THEN 1
  ELSE 1 + (CHOOSE d \in {Depth(node.rules[i]) : i \in 1..Len(node.rules)} :
              \A i \in 1..Len(node.rules) : Depth(node.rules[i]) <= d)

\* The validation rules: known field, operator and value fitting the field's
\* type, no group without children, depth within the cap
ValidRule(rule) ==
  \/ /\ rule.field \in NumericFields
     /\ rule.operator \in {"=", "!=", ">", "<", ">=", "<="}
     /\ rule.value.type = "number"
  \/ /\ rule.field \in StringFields
     /\ rule.operator \in {"=", "!=", "contains"}
     /\ rule.value.type = "string"

RECURSIVE ValidNode(_)
ValidNode(node) ==
  IF node.kind = "rule" THEN ValidRule(node)
  ELSE /\ node.rules # <<>>
       /\ \A i \in 1..Len(node.rules) : ValidNode(node.rules[i])

Valid(ruleGroup) == ValidNode(ruleGroup) /\ Depth(ruleGroup) <= DepthCap

\* contains: case-sensitive substring match
Contains(s, sub) ==
  \E i \in 1..(Len(s) - Len(sub) + 1) : SubSeq(s, i, i + Len(sub) - 1) = sub

\* Brute-force reference evaluation of a valid rule tree on one customer
RuleMatches(rule, cust) ==
  IF rule.field \in NumericFields
    THEN Compare(rule.operator, cust[rule.field], rule.value.n)
  ELSE IF rule.operator = "=" THEN cust[rule.field] = rule.value.s
  ELSE IF rule.operator = "!=" THEN cust[rule.field] # rule.value.s
  ELSE Contains(cust[rule.field], rule.value.s)

RECURSIVE NodeMatches(_, _)
NodeMatches(node, cust) ==
  IF node.kind = "rule" THEN RuleMatches(node, cust)
  ELSE IF node.operator = "AND"
    THEN \A i \in 1..Len(node.rules) : NodeMatches(node.rules[i], cust)
    ELSE \E i \in 1..Len(node.rules) : NodeMatches(node.rules[i], cust)

ReferenceCount(ruleGroup) == Cardinality({c \in Customers : NodeMatches(ruleGroup, c)})

\* C3: a RuleGroup that violates a validation rule makes the call fail with
\* an error that reaches the caller, no query is issued to the store, and
\* the failure is never turned into a default count.
C3_InvalidGroupRejected ==
  (estPc # "idle" /\ ~Valid(estArg)) =>
    /\ ~estIssued
    /\ estPc = "done" => estResult.outcome = "threw"

\* C4: for every valid RuleGroup the count estimated through the compiled
\* query equals the brute-force reference count over the customer set, for
\* each operator, for AND and OR groups and for nested groups.
C4_EstimateEqualsReference ==
  (estPc = "done" /\ Valid(estArg) /\ estStore \in {"answered", "sqlerror"}) =>
    estResult.count = ReferenceCount(estArg)

\* Two trees of the same shape, fields and operators, whatever their values
RECURSIVE SameShape(_, _)
SameShape(a, b) ==
  /\ a.kind = b.kind
  /\ a.operator = b.operator
  /\ a.field = b.field
  /\ Len(a.rules) = Len(b.rules)
  /\ \A i \in 1..Len(a.rules) : SameShape(a.rules[i], b.rules[i])

\* C5: the executable query text never contains a rule value: RuleGroups
\* that differ only in their values yield the same query text.
C5_QueryTextIndependentOfValues ==
  estPc # "idle" =>
    \A other \in RuleGroupInputs :
      SameShape(estArg, other) => QueryText(other) = estQuery

\* C7: estimateAudience returns a non-negative integer, and when the store
\* is unreachable, fails or answers with a malformed result the count is 0
\* and an error event has been emitted.
C7_FailureIsZeroAndLogged ==
  estPc = "done" =>
    /\ estResult.outcome = "returned"
    /\ estResult.count \in Nat
    /\ estStore \in {"sqlerror", "unreachable", "malformed"} =>
         estResult.count = 0 /\ estLogged

(***************************************************************************)
(* Properties of generateAIMessages                                        *)
(***************************************************************************)
\* The provider gave nothing usable: no choices, or only null or empty ones
EmptyResult(reply) ==
  /\ reply.kind = "completion"
  /\ \A i \in 1..Len(reply.choices) :
       /\ reply.choices[i].hasMessage
       /\ reply.choices[i].content.isNull \/ reply.choices[i].content.s = <<>>

MalformedResult(reply) ==
  \/ reply.kind = "nochoices"
  \/ \E i \in 1..Len(reply.choices) : ~reply.choices[i].hasMessage

\* C6: generateAIMessages never fails outward; with no credential, on a
\* provider error, or on an empty or malformed result it returns exactly
\* the three fallback strings, and in every case it returns a non-empty
\* sequence of non-empty strings.
C6_FallbackOnAnyFailure ==
  genPc = "done" =>
    /\ genResult.outcome = "returned"
    /\ Len(genResult.messages) > 0
    /\ \A i \in 1..Len(genResult.messages) : genResult.messages[i] # <<>>
    /\ (\/ ~apiKey
        \/ genReply.kind = "error"
        \/ EmptyResult(genReply)
        \/ MalformedResult(genReply)) => genResult.messages = Fallback

\* The provider answered with choices whose contents are all null or empty,
\* and the call returned
C6_Witness ==
  /\ genPc = "done"
  /\ apiKey
  /\ genReply.kind = "completion"
  /\ Len(genReply.choices) = 2
  /\ EmptyResult(genReply)

\* C9: every generateAIMessages call eventually returns, also when the
\* provider never responds (the wait is bounded by a timeout).
C9_CallEventuallyReturns == (genPc = "awaiting") ~> (genPc = "done")

====
